---------------------------- MODULE Spec2Model ----------------------------
(***************************************************************************)
(* A model of src/app.py, the Streamlit meal macro tracker.                *)
(*                                                                         *)
(* One browser session is one element of Sessions.  Every user interaction *)
(* (a button, a typed number, a selection) starts one run of the script    *)
(* from its first line; an action of this module is one such run together  *)
(* with the rerun that st.rerun() asks for.  The only handler that is cut  *)
(* into steps is Save Meal, whose writes to the database are separate      *)
(* statements of one sqlite transaction.                                   *)
(*                                                                         *)
(* Numbers: the program computes with Python floats.  The model computes   *)
(* with exact rationals <<numerator, denominator>> in lowest terms, so     *)
(* what is checked about arithmetic is checked in exact arithmetic.        *)
(***************************************************************************)
EXTENDS Integers, Sequences, FiniteSets, TLC

(***************************************************************************)
(* Bounds of the model.                                                    *)
(***************************************************************************)
MaxItems == 2       \* longest composed meal explored
MaxRows  == 3       \* most meal_items rows written (committed or pending)

Sessions  == {"s1", "s2"}
Usernames == {"ann", "bob"}
Passwords == {"pw1", "pw2"}
MealNames == {"Lunch"}

(***************************************************************************)
(* Exact arithmetic standing for float *, / and +.                         *)
(***************************************************************************)
Abs(x) == IF x < 0 THEN -x ELSE x

RECURSIVE GCD(_, _)
GCD(a, b) == IF b = 0 THEN a ELSE GCD(b, a % b)

\* n/d in lowest terms with a positive denominator (d # 0)
Rat(n, d) ==
    LET g == GCD(Abs(n), Abs(d))
        s == IF d < 0 THEN -1 ELSE 1
    IN  <<(s * n) \div g, (s * d) \div g>>

Q(n) == <<n, 1>>
RMul(a, b) == Rat(a[1] * b[1], a[2] * b[2])
RDiv(a, b) == Rat(a[1] * b[2], a[2] * b[1])
RAdd(a, b) == Rat(a[1] * b[2] + b[1] * a[2], a[2] * b[2])

(***************************************************************************)
(* hash_password: sha256 of the password, kept symbolic.  Distinct         *)
(* passwords have distinct digests, and no digest is a password.           *)
(***************************************************************************)
hash_password(pw) == <<"sha256", pw>>

(***************************************************************************)
(* The remote food database: what the search endpoint may answer.          *)
(* A food is {description, foodNutrients: list of {nutrientName, value}}.  *)
(* The second food has no "Energy" and no carbohydrate entry.              *)
(***************************************************************************)
Nutrient(n, v) == [nutrientName |-> n, value |-> v]

Apple ==
    [description |-> "apple",
     foodNutrients |-> << Nutrient("Protein", Q(2)),
                          Nutrient("Carbohydrate, by difference", Q(14)),
                          Nutrient("Total lipid (fat)", Rat(1, 5)),
                          Nutrient("Energy", Q(52)) >>]

Egg ==
    [description |-> "egg",
     foodNutrients |-> << Nutrient("Protein", Q(13)),
                          Nutrient("Total lipid (fat)", Q(11)) >>]

Catalogue == << Apple, Egg >>

\* The outcomes of requests.get(...) followed by r.json().get("foods", []):
\*   "ok"         a JSON object with a "foods" list
\*   "no_foods"   a JSON object without "foods" (the service's error body,
\*                e.g. for a missing or rejected api_key)
\*   "transport"  requests raises ConnectionError
\*   "timeout"    requests raises Timeout after 10 s
\*   "non_json"   r.json() raises on a body that is not JSON
Responses == {"ok", "no_foods", "transport", "timeout", "non_json"}
FailedResponses == {"transport", "timeout", "non_json"}

Queries == {"apple", " "}

\* str.strip() on the model's queries
strip(q) == IF q = " " THEN "" ELSE q

(***************************************************************************)
(* State.                                                                  *)
(***************************************************************************)
VARIABLES
    users,          \* table users: rows [id, username, password]
    meals,          \* table meals, committed rows [id, user_id, name]
    meal_items,     \* table meal_items, committed rows
    txn,            \* the open write transaction (at most one: sqlite's lock)
    user,           \* st.session_state.user, per session
    meal,           \* st.session_state.meal, per session
    foods,          \* st.session_state.foods, per session
    selected_food,  \* st.session_state.selected_food, per session
    add_qty,        \* st.session_state.add_qty, per session
    pc,             \* where each session's script run stands
    totals,         \* the totals the page of each session shows
    out,            \* what the last script run showed: message or exception
    saved           \* history: the composed meal each meal id was saved from

vars == <<users, meals, meal_items, txn, user, meal, foods, selected_food,
          add_qty, pc, totals, out, saved>>

dbVars      == <<users, meals, meal_items, txn, saved>>
sessionVars == <<user, meal, foods, selected_food, add_qty>>

NoUser == [id |-> 0, username |-> ""]      \* st.session_state.user = None
NoFood == [description |-> "", foodNutrients |-> <<>>]   \* selected_food = None
NoTxn  == [owner |-> "", meals |-> <<>>, items |-> <<>>]

DefaultQty == 100      \* add_qty's initial and reset value
MinQty     == 1        \* min_value of both number inputs
QtyStep    == 10       \* the step of the - and + buttons

Zero4 == [protein |-> Q(0), carbs |-> Q(0), fat |-> Q(0), calories |-> Q(0)]
NotShown == [shown |-> FALSE, sum |-> Zero4]


(***************************************************************************)
(* Pure parts of the script.                                               *)
(***************************************************************************)
MaxOf(S) == CHOOSE x \in S : \A y \in S : y <= x
MinOf(S) == CHOOSE x \in S : \A y \in S : x <= y

\* nutrients = {n["nutrientName"]: float(n["value"]) ...}; nutrients.get(name, default).
\* A dict comprehension keeps the last entry of a repeated name.
nutrients_get(food, name, default) ==
    LET list == food.foodNutrients
        at   == {i \in DOMAIN list : list[i].nutrientName = name}
    IN  IF at = {} THEN default ELSE list[MaxOf(at)].value

base_p(food) == nutrients_get(food, "Protein", Q(0))
base_c(food) == nutrients_get(food, "Carbohydrate, by difference", Q(0))
base_f(food) == nutrients_get(food, "Total lipid (fat)", Q(0))
base_cal(food) ==
    nutrients_get(food, "Energy",
                  RAdd(RAdd(RMul(base_p(food), Q(4)), RMul(base_c(food), Q(4))),
                       RMul(base_f(food), Q(9))))

\* base * qty / 100
scale(base, qty) == RDiv(RMul(base, Q(qty)), Q(100))

\* the dict appended by Add to Meal
new_item(food, qty) ==
    [name     |-> food.description,
     quantity |-> qty,
     protein  |-> scale(base_p(food), qty),
     carbs    |-> scale(base_c(food), qty),
     fat      |-> scale(base_f(food), qty),
     calories |-> scale(base_cal(food), qty)]

\* A number input without a minimum: whatever is typed is accepted.
number_input_no_min(min_value, value, typed) == typed

\* st.number_input(min_value=..., value=...): the value the user typed when
\* the widget accepts it (the widget does not submit a number below
\* min_value), else the value it was given.
number_input(min_value, value, typed) ==
    IF typed >= min_value THEN typed ELSE value

\* max(1.0, add_qty - 10.0)
minus_qty(q) == IF q - QtyStep > MinQty THEN q - QtyStep ELSE MinQty

\* A rescale that replaces the quantity before it computes the factor.
rescale_factor_after(item, new_qty) ==
    LET item2  == [item EXCEPT !.quantity = new_qty]
        factor == Rat(new_qty, item2.quantity)
    IN  [item2 EXCEPT !.protein  = RMul(@, factor),
                      !.carbs    = RMul(@, factor),
                      !.fat      = RMul(@, factor),
                      !.calories = RMul(@, factor)]

\* factor = new_qty / item["quantity"]; the quantity is replaced and the
\* four macro fields are multiplied by the factor (item["quantity"] # 0).
rescale(item, new_qty) ==
    LET factor == Rat(new_qty, item.quantity)
    IN  [item EXCEPT !.quantity = new_qty,
                     !.protein  = RMul(@, factor),
                     !.carbs    = RMul(@, factor),
                     !.fat      = RMul(@, factor),
                     !.calories = RMul(@, factor)]

\* list.pop(i), with the model's 1-based positions
pop(m, i) == [k \in 1..(Len(m) - 1) |-> IF k < i THEN m[k] ELSE m[k + 1]]

\* the accumulation of total_p, total_c, total_f, total_cal by the render loop
RECURSIVE render_loop(_, _, _)
render_loop(m, i, acc) ==
    IF i > Len(m) THEN acc
    ELSE render_loop(m, i + 1,
                     [protein  |-> RAdd(acc.protein, m[i].protein),
                      carbs    |-> RAdd(acc.carbs, m[i].carbs),
                      fat      |-> RAdd(acc.fat, m[i].fat),
                      calories |-> RAdd(acc.calories, m[i].calories)])

\* A render loop that misses the first item.
render_totals_skip_first(m) == render_loop(m, 2, Zero4)

render_totals(m) == render_loop(m, 1, Zero4)

\* the page of a logged-in session after a run that reaches the metrics
Shown(m) == [shown |-> TRUE, sum |-> render_totals(m)]

\* next(f for f in foods if f["description"] == name)
select_by_name(list, name) ==
    list[MinOf({i \in DOMAIN list : list[i].description = name})]

\* what the selection section leaves in selected_food: with candidates, the
\* food whose description the selectbox shows (its first option unless the
\* user picked another); without candidates, selected_food is left as it is
selection(list, picked, before) ==
    IF list = <<>> THEN before
    ELSE select_by_name(list, list[picked].description)

(***************************************************************************)
(* The database.  A table is the sequence of its rows in rowid order.      *)
(***************************************************************************)
\* the id an AUTOINCREMENT table gives its next row
lastrowid(tbl) == IF tbl = <<>> THEN 1 ELSE tbl[Len(tbl)].id + 1

\* cur.fetchone() of SELECT id, password FROM users WHERE username=?
\* (<<>> stands for None)
fetch_user(u) ==
    LET at == {i \in DOMAIN users : users[i].username = u}
    IN  IF at = {} THEN <<>> ELSE <<users[MinOf(at)].id, users[MinOf(at)].password>>

\* A login check that forgets to compare the password.
credentials_ok_any_password(row, p) == row # <<>>

\* row and row[1] == hash_password(p)
credentials_ok(row, p) == row # <<>> /\ row[2] = hash_password(p)

\* A users table without the UNIQUE constraint on username.
username_taken_never(tbl, nu) == FALSE

\* the UNIQUE constraint on users.username, checked by the INSERT itself
username_taken(tbl, nu) == \E i \in DOMAIN tbl : tbl[i].username = nu

\* A meals query without its WHERE user_id=? clause.
list_meals_all_accounts(uid) ==
    [k \in 1..Len(meals) |->
        <<meals[Len(meals) + 1 - k].id, meals[Len(meals) + 1 - k].name>>]

\* SELECT id, name FROM meals WHERE user_id=? ORDER BY id DESC
list_meals(uid) ==
    LET mine == SelectSeq(meals, LAMBDA r : r.user_id = uid)
    IN  [k \in 1..Len(mine) |->
            <<mine[Len(mine) + 1 - k].id, mine[Len(mine) + 1 - k].name>>]

\* the tuple a SELECT food_name, quantity, protein, carbs, fat, calories returns
item_columns(r) == <<r.food_name, r.quantity, r.protein, r.carbs, r.fat, r.calories>>

\* An items query without its WHERE meal_id=? clause.
select_items_all_meals(mid) ==
    [k \in 1..Len(meal_items) |-> item_columns(meal_items[k])]

\* SELECT ... FROM meal_items WHERE meal_id=?  (a table scan: rowid order)
select_items(mid) ==
    LET rows == SelectSeq(meal_items, LAMBDA r : r.meal_id = mid)
    IN  [k \in 1..Len(rows) |-> item_columns(rows[k])]

\* the list comprehension of the Load Meal handler
rows_to_meal(rows) ==
    [k \in 1..Len(rows) |->
        [name     |-> rows[k][1],
         quantity |-> rows[k][2],
         protein  |-> rows[k][3],
         carbs    |-> rows[k][4],
         fat      |-> rows[k][5],
         calories |-> rows[k][6]]]

\* the row INSERT INTO meal_items writes for one item
item_row(id, meal_id, item) ==
    [id        |-> id,
     meal_id   |-> meal_id,
     food_name |-> item.name,
     quantity  |-> item.quantity,
     protein   |-> item.protein,
     carbs     |-> item.carbs,
     fat       |-> item.fat,
     calories  |-> item.calories]

\* A save that writes over the caller's meal of the same name, when there is one.
meal_row_overwrite(tbl, uid, name) ==
    LET at == {i \in DOMAIN tbl : tbl[i].user_id = uid /\ tbl[i].name = name}
    IN  [id      |-> IF at = {} THEN lastrowid(tbl) ELSE tbl[MinOf(at)].id,
         user_id |-> uid,
         name    |-> name]

\* the row INSERT INTO meals writes (created_at, which nothing reads, is left out)
meal_row(tbl, uid, name) ==
    [id |-> lastrowid(tbl), user_id |-> uid, name |-> name]

\* A connection that commits what it has written when it is dropped.
on_drop_commit(tbl, pending) == tbl \o pending

\* A connection dropped without conn.commit(): sqlite rolls its writes back,
\* the table keeps its committed rows.
on_drop(tbl, pending) == tbl

Authenticated(s) == user[s] # NoUser
Idle(s) == pc[s] = "idle"
Locked == txn.owner # ""

(***************************************************************************)
(* The initial state: an empty database (init_db), fresh sessions.         *)
(***************************************************************************)
Init ==
    /\ users = <<>>
    /\ meals = <<>>
    /\ meal_items = <<>>
    /\ txn = NoTxn
    /\ saved = <<>>
    /\ user = [s \in Sessions |-> NoUser]
    /\ meal = [s \in Sessions |-> <<>>]
    /\ foods = [s \in Sessions |-> <<>>]
    /\ selected_food = [s \in Sessions |-> NoFood]
    /\ add_qty = [s \in Sessions |-> DefaultQty]
    /\ pc = [s \in Sessions |-> "idle"]
    /\ totals = [s \in Sessions |-> NotShown]
    /\ out = ""

(***************************************************************************)
(* auth_ui                                                                 *)
(***************************************************************************)
Login(s, u, p) ==
    /\ Idle(s)
    /\ ~Authenticated(s)
    /\ IF credentials_ok(fetch_user(u), p)
       THEN /\ user' = [user EXCEPT ![s] = [id |-> fetch_user(u)[1], username |-> u]]
            /\ totals' = [totals EXCEPT ![s] = Shown(meal[s])]
            /\ out' = ""
       ELSE /\ out' = "Invalid credentials"
            /\ UNCHANGED <<user, totals>>
    /\ UNCHANGED <<dbVars, meal, foods, selected_food, add_qty, pc>>

Register(s, nu, np) ==
    /\ Idle(s)
    /\ ~Authenticated(s)
    /\ IF Locked
       THEN \* sqlite3.OperationalError (database is locked) is not caught
            /\ out' = "exception"
            /\ UNCHANGED users
       ELSE IF username_taken(users, nu)
       THEN /\ out' = "Username already exists"
            /\ UNCHANGED users
       ELSE /\ users' = Append(users, [id |-> lastrowid(users), username |-> nu,
                                       password |-> hash_password(np)])
            /\ out' = "Account created. Please login."
    /\ UNCHANGED <<meals, meal_items, txn, saved, sessionVars, pc, totals>>

\* st.session_state.clear(), then the rerun initialises the session again
Logout(s) ==
    /\ Idle(s)
    /\ Authenticated(s)
    /\ user' = [user EXCEPT ![s] = NoUser]
    /\ meal' = [meal EXCEPT ![s] = <<>>]
    /\ foods' = [foods EXCEPT ![s] = <<>>]
    /\ selected_food' = [selected_food EXCEPT ![s] = NoFood]
    /\ add_qty' = [add_qty EXCEPT ![s] = DefaultQty]
    /\ totals' = [totals EXCEPT ![s] = NotShown]
    /\ out' = ""
    /\ UNCHANGED <<dbVars, pc>>

(***************************************************************************)
(* Search and selection                                                    *)
(***************************************************************************)
Search(s, q, resp) ==
    /\ Idle(s)
    /\ Authenticated(s)
    /\ IF strip(q) = ""
       THEN /\ totals' = [totals EXCEPT ![s] = Shown(meal[s])]
            /\ out' = ""
            /\ UNCHANGED <<foods, selected_food>>
       ELSE IF resp \in FailedResponses
       THEN \* requests.get or r.json() raises; nothing catches it, the run ends
            /\ totals' = [totals EXCEPT ![s] = NotShown]
            /\ out' = "exception"
            /\ UNCHANGED <<foods, selected_food>>
       ELSE LET list == IF resp = "ok" THEN Catalogue ELSE <<>>
            IN  /\ foods' = [foods EXCEPT ![s] = list]
                /\ selected_food' = [selected_food EXCEPT ![s] = selection(list, 1, NoFood)]
                /\ totals' = [totals EXCEPT ![s] = Shown(meal[s])]
                /\ out' = ""
    /\ UNCHANGED <<dbVars, user, meal, add_qty, pc>>

SelectFood(s, i) ==
    /\ Idle(s)
    /\ Authenticated(s)
    /\ i \in DOMAIN foods[s]
    /\ selected_food' = [selected_food EXCEPT ![s] = selection(foods[s], i, selected_food[s])]
    /\ totals' = [totals EXCEPT ![s] = Shown(meal[s])]
    /\ out' = ""
    /\ UNCHANGED <<dbVars, user, meal, foods, add_qty, pc>>

(***************************************************************************)
(* Quantity and Add to Meal (shown only with a selected food)              *)
(***************************************************************************)
Preview(s) == Idle(s) /\ Authenticated(s) /\ selected_food[s] # NoFood

SetQty(s, q) ==
    /\ add_qty' = [add_qty EXCEPT ![s] = q]
    /\ totals' = [totals EXCEPT ![s] = Shown(meal[s])]
    /\ out' = ""
    /\ UNCHANGED <<dbVars, user, meal, foods, selected_food, pc>>

Minus(s) ==
    /\ Preview(s)
    /\ SetQty(s, number_input(MinQty, minus_qty(add_qty[s]), minus_qty(add_qty[s])))

TypeQty(s, typed) ==
    /\ Preview(s)
    /\ SetQty(s, number_input(MinQty, add_qty[s], typed))

Plus(s) ==
    /\ Preview(s)
    /\ SetQty(s, number_input(MinQty, add_qty[s], add_qty[s]) + QtyStep)

AddToMeal(s) ==
    /\ Preview(s)
    /\ Len(meal[s]) < MaxItems
    /\ LET qty == number_input(MinQty, add_qty[s], add_qty[s])
           m2  == Append(meal[s], new_item(selected_food[s], qty))
       IN  /\ meal' = [meal EXCEPT ![s] = m2]
           /\ totals' = [totals EXCEPT ![s] = Shown(m2)]
    /\ add_qty' = [add_qty EXCEPT ![s] = DefaultQty]
    /\ out' = ""
    /\ UNCHANGED <<dbVars, user, foods, selected_food, pc>>

(***************************************************************************)
(* Current meal: rescale, remove, clear                                    *)
(***************************************************************************)
Rescale(s, i, typed) ==
    /\ Idle(s)
    /\ Authenticated(s)
    /\ i \in DOMAIN meal[s]
    /\ LET item    == meal[s][i]
           new_qty == number_input(MinQty, item.quantity, typed)
       IN  IF new_qty = item.quantity
           THEN /\ totals' = [totals EXCEPT ![s] = Shown(meal[s])]
                /\ out' = ""
                /\ UNCHANGED meal
           ELSE IF item.quantity = 0
           THEN \* ZeroDivisionError in new_qty / item["quantity"]
                /\ totals' = [totals EXCEPT ![s] = NotShown]
                /\ out' = "exception"
                /\ UNCHANGED meal
           ELSE LET m2 == [meal[s] EXCEPT ![i] = rescale(item, new_qty)]
                IN  /\ meal' = [meal EXCEPT ![s] = m2]
                    /\ totals' = [totals EXCEPT ![s] = Shown(m2)]
                    /\ out' = ""
    /\ UNCHANGED <<dbVars, user, foods, selected_food, add_qty, pc>>

Remove(s, i) ==
    /\ Idle(s)
    /\ Authenticated(s)
    /\ i \in DOMAIN meal[s]
    /\ LET m2 == pop(meal[s], i)
       IN  /\ meal' = [meal EXCEPT ![s] = m2]
           /\ totals' = [totals EXCEPT ![s] = Shown(m2)]
    /\ out' = ""
    /\ UNCHANGED <<dbVars, user, foods, selected_food, add_qty, pc>>

Clear(s) ==
    /\ Idle(s)
    /\ Authenticated(s)
    /\ meal' = [meal EXCEPT ![s] = <<>>]
    /\ totals' = [totals EXCEPT ![s] = Shown(<<>>)]
    /\ out' = ""
    /\ UNCHANGED <<dbVars, user, foods, selected_food, add_qty, pc>>

(***************************************************************************)
(* Save Meal: one INSERT into meals, one INSERT into meal_items per item,  *)
(* then conn.commit().  The connection has Python's default isolation      *)
(* level, so the first INSERT opens a transaction that holds the           *)
(* database's write lock until the commit or until the connection is       *)
(* dropped.  Other connections read the committed tables only.             *)
(***************************************************************************)
SaveBegin(s, name) ==
    /\ Idle(s)
    /\ Authenticated(s)
    /\ totals' = [totals EXCEPT ![s] = Shown(meal[s])]
    /\ IF meal[s] = <<>>
       THEN \* st.button(...) and st.session_state.meal is falsy
            /\ out' = ""
            /\ UNCHANGED <<txn, pc, saved>>
       ELSE IF Locked
       THEN \* sqlite3.OperationalError: database is locked
            /\ out' = "exception"
            /\ UNCHANGED <<txn, pc, saved>>
       ELSE LET row == meal_row(meals, user[s].id, name)
            IN  /\ txn' = [owner |-> s, meals |-> <<row>>, items |-> <<>>]
                /\ pc' = [pc EXCEPT ![s] = "saving"]
                /\ saved' = IF row.id \in DOMAIN saved
                            THEN [saved EXCEPT ![row.id] = meal[s]]
                            ELSE Append(saved, meal[s])
                /\ out' = ""
    /\ UNCHANGED <<users, meals, meal_items, sessionVars>>

SaveItem(s) ==
    /\ pc[s] = "saving"
    /\ Len(txn.items) < Len(meal[s])
    /\ txn' = [txn EXCEPT !.items =
                 Append(@, item_row(lastrowid(meal_items \o txn.items),
                                    txn.meals[1].id,
                                    meal[s][Len(txn.items) + 1]))]
    /\ UNCHANGED <<users, meals, meal_items, saved, sessionVars, pc, totals, out>>

SaveCommit(s) ==
    /\ pc[s] = "saving"
    /\ Len(txn.items) = Len(meal[s])
    /\ meals' = meals \o txn.meals
    /\ meal_items' = meal_items \o txn.items
    /\ txn' = NoTxn
    /\ pc' = [pc EXCEPT ![s] = "idle"]
    /\ out' = "Meal saved"
    /\ UNCHANGED <<users, saved, sessionVars, totals>>

\* A statement of the handler raises (the disk is full, a value cannot be
\* bound): the run ends, the connection is dropped without a commit.
SaveFail(s) ==
    /\ pc[s] = "saving"
    /\ meals' = on_drop(meals, txn.meals)
    /\ meal_items' = on_drop(meal_items, txn.items)
    /\ txn' = NoTxn
    /\ pc' = [pc EXCEPT ![s] = "idle"]
    /\ saved' = SubSeq(saved, 1, Len(meals'))
    /\ out' = "exception"
    /\ UNCHANGED <<users, sessionVars, totals>>

(***************************************************************************)
(* Load Meal: the selectbox offers the rows of the caller's list query;    *)
(* the handler reads the items of the row picked and replaces the meal.    *)
(***************************************************************************)
Load(s, k) ==
    /\ Idle(s)
    /\ Authenticated(s)
    /\ LET offered == list_meals(user[s].id)
       IN  /\ k \in DOMAIN offered
           /\ LET m2 == rows_to_meal(select_items(offered[k][1]))
              IN  /\ meal' = [meal EXCEPT ![s] = m2]
                  /\ totals' = [totals EXCEPT ![s] = Shown(m2)]
    /\ out' = ""
    /\ UNCHANGED <<dbVars, user, foods, selected_food, add_qty, pc>>

(***************************************************************************)
(* Specifications.  The actions above are the program; a specification     *)
(* chooses the sessions that act and the inputs they give, and keeps the   *)
(* quantities inside a small explored set.                                 *)
(***************************************************************************)

\* SpecCompose: one session composes a meal with every input the quantity
\* widgets and the search can receive.  Nothing is saved.  A quantity of 50
\* is typed only into an item's Qty field, never into the add quantity.
ComposeAddQty   == {1, 5, 15, 100}
ComposeItemQty  == {1, 5, 15, 50, 100}
ComposeAddTyped == {-10, 0, 5, 15}
ComposeQtyTyped == {-10, 0, 5, 50, 100}

ComposeExplored(s) ==
    /\ add_qty'[s] \in ComposeAddQty
    /\ \A i \in DOMAIN meal'[s] : meal'[s][i].quantity \in ComposeItemQty

NextCompose ==
    \E s \in {"s1"} :
        \/ \E p \in Passwords : Login(s, "ann", p)
        \/ Register(s, "ann", "pw1")
        \/ Logout(s)
        \/ \E q \in Queries, r \in Responses : Search(s, q, r)
        \/ \E i \in 1..Len(Catalogue) : SelectFood(s, i)
        \/ Minus(s) /\ ComposeExplored(s)
        \/ \E t \in ComposeAddTyped : TypeQty(s, t) /\ ComposeExplored(s)
        \/ Plus(s) /\ ComposeExplored(s)
        \/ AddToMeal(s)
        \/ \E i \in 1..MaxItems, t \in ComposeQtyTyped :
              Rescale(s, i, t) /\ ComposeExplored(s)
        \/ \E i \in 1..MaxItems : Remove(s, i)
        \/ Clear(s)

SpecCompose == Init /\ [][NextCompose]_vars

\* SpecAuth: two sessions register, log in and out, and compose with the
\* default quantity.
NextAuth ==
    \E s \in Sessions :
        \/ \E u \in Usernames, p \in Passwords : Login(s, u, p)
        \/ \E u \in Usernames, p \in Passwords : Register(s, u, p)
        \/ Logout(s)
        \/ Search(s, "apple", "ok")
        \/ AddToMeal(s)
        \/ Clear(s)

SpecAuth == Init /\ [][NextAuth]_vars

\* SpecStore: two accounts exist; ann's browser s1 and bob's browser s2 log
\* in (also with a wrong password and with a username that does not exist),
\* compose, save and load.  Items are added with the default quantity; s1
\* also types quantities into the Qty field of its items.
StoreTyped  == {0, 50}
StoreLogins == {"eve"}

Owner(s)  == IF s = "s1" THEN "ann" ELSE "bob"
Editor(s) == s = "s1"

InitStore ==
    /\ users = << [id |-> 1, username |-> "ann", password |-> hash_password("pw1")],
                  [id |-> 2, username |-> "bob", password |-> hash_password("pw2")] >>
    /\ meals = <<>>
    /\ meal_items = <<>>
    /\ txn = NoTxn
    /\ saved = <<>>
    /\ user = [s \in Sessions |-> NoUser]
    /\ meal = [s \in Sessions |-> <<>>]
    /\ foods = [s \in Sessions |-> <<>>]
    /\ selected_food = [s \in Sessions |-> NoFood]
    /\ add_qty = [s \in Sessions |-> DefaultQty]
    /\ pc = [s \in Sessions |-> "idle"]
    /\ totals = [s \in Sessions |-> NotShown]
    /\ out = ""

NextStore ==
    \E s \in Sessions :
        \/ \E u \in {Owner(s)} \cup StoreLogins, p \in Passwords : Login(s, u, p)
        \/ Logout(s)
        \/ Search(s, "apple", "ok")
        \/ AddToMeal(s)
        \/ \E i \in 1..MaxItems, t \in StoreTyped : Editor(s) /\ Rescale(s, i, t)
        \/ \E i \in 1..MaxItems : Remove(s, i)
        \/ Clear(s)
        \/ \E n \in MealNames :
              SaveBegin(s, n) /\ Len(meal_items) + Len(meal[s]) <= MaxRows
        \/ SaveItem(s)
        \/ SaveCommit(s)
        \/ SaveFail(s)
        \/ \E k \in 1..MaxRows : Load(s, k)

SpecStore == InitStore /\ [][NextStore]_vars

\* SpecQty: ann's browser alone gives the quantity widgets numbers on both
\* sides of their minimum, and saves and loads what it composed.
QtyExplored == {1, 100}
QtyTyped    == {-10, 0, 1, 100}

NextQty ==
    \E s \in {"s1"} :
        \/ Login(s, "ann", "pw1")
        \/ Logout(s)
        \/ Search(s, "apple", "ok")
        \/ Minus(s) /\ add_qty'[s] \in QtyExplored
        \/ \E t \in QtyTyped : TypeQty(s, t)
        \/ AddToMeal(s)
        \/ \E i \in 1..MaxItems, t \in QtyTyped : Rescale(s, i, t)
        \/ \E i \in 1..MaxItems : Remove(s, i)
        \/ \E n \in MealNames :
              SaveBegin(s, n) /\ Len(meal_items) + Len(meal[s]) <= MaxRows
        \/ SaveItem(s)
        \/ SaveCommit(s)
        \/ SaveFail(s)
        \/ \E k \in 1..MaxRows : Load(s, k)

SpecQty == InitStore /\ [][NextQty]_vars

(***************************************************************************)
(* Properties.                                                             *)
(***************************************************************************)
\* the sum of one field over a meal, taken from its last item backwards
RECURSIVE FieldSum(_, _)
FieldSum(m, f) ==
    IF m = <<>> THEN Q(0)
    ELSE RAdd(FieldSum(SubSeq(m, 1, Len(m) - 1), f), m[Len(m)][f])

\* C1: whenever a session's page shows totals, each of protein, carbs, fat
\* and calories is the sum of that field over exactly the items now in the
\* session's composed meal.
C1_TotalsAreSumOfCurrentItems ==
    \A s \in Sessions :
        totals[s].shown =>
            totals[s].sum = [protein  |-> FieldSum(meal[s], "protein"),
                             carbs    |-> FieldSum(meal[s], "carbs"),
                             fat      |-> FieldSum(meal[s], "fat"),
                             calories |-> FieldSum(meal[s], "calories")]

\* totals are shown for a meal of two different foods, the first rescaled to 50 g
C1_Witness ==
    \E s \in Sessions :
        /\ totals[s].shown
        /\ Len(meal[s]) = 2
        /\ meal[s][1].name # meal[s][2].name
        /\ meal[s][1].quantity = 50
        /\ totals[s].sum.calories # meal[s][1].calories

\* the per-100 macros of the catalogue's foods, written out
ExpectedBase(name) ==
    IF name = "apple"
    THEN [protein |-> <<2, 1>>, carbs |-> <<14, 1>>, fat |-> <<1, 5>>, calories |-> <<52, 1>>]
    ELSE [protein |-> <<13, 1>>, carbs |-> <<0, 1>>, fat |-> <<11, 1>>, calories |-> <<151, 1>>]

\* v = base * qty / 100, by cross-multiplication
IsBaseTimesQty(v, base, qty) == v[1] * base[2] * 100 = base[1] * qty * v[2]

\* C8: every item of a composed meal, however often it was rescaled, has
\* each macro field equal to its food's per-100 base times its current
\* quantity over 100.
C8_MacrosProportionalToQuantity ==
    \A s \in Sessions : \A i \in DOMAIN meal[s] :
        LET it == meal[s][i]
            b  == ExpectedBase(it.name)
        IN  /\ IsBaseTimesQty(it.protein, b.protein, it.quantity)
            /\ IsBaseTimesQty(it.carbs, b.carbs, it.quantity)
            /\ IsBaseTimesQty(it.fat, b.fat, it.quantity)
            /\ IsBaseTimesQty(it.calories, b.calories, it.quantity)

\* an egg item (calories from the fallback) rescaled to 50 g
C8_Witness ==
    \E s \in Sessions : \E i \in DOMAIN meal[s] :
        /\ meal[s][i].name = "egg"
        /\ meal[s][i].quantity = 50
        /\ meal[s][i].calories = <<151, 2>>

\* C7, as claimed: a search whose request fails, or whose answer names no
\* foods, empties the candidate list without an exception leaving the
\* search step, and leaves the session's user and composed meal alone.
C7_FailedSearchGivesEmptyList ==
    [][\A s \in Sessions, q \in Queries, r \in FailedResponses \cup {"no_foods"} :
          (Search(s, q, r) /\ strip(q) # "") =>
              /\ foods'[s] = <<>>
              /\ out' # "exception"
              /\ user'[s] = user[s]
              /\ meal'[s] = meal[s]]_vars

\* the composed meal a load of meal id would produce, from the committed tables
Loaded(id) == rows_to_meal(select_items(id))

\* the account a committed meal row belongs to
OwnerOf(id) == meals[MinOf({i \in DOMAIN meals : meals[i].id = id})].user_id

\* the id of the k-th meal the selectbox of session s offers
Offered(s, k) == list_meals(user[s].id)[k][1]

\* C2: a load of a saved meal's id yields the composed meal it was saved
\* from, item by item and field by field, whatever else has been saved;
\* and every Load Meal step leaves exactly that in the session.
C2_SaveThenLoadRoundTrip ==
    /\ [](\A i \in DOMAIN meals :
             /\ saved[meals[i].id] # <<>>
             /\ Loaded(meals[i].id) = saved[meals[i].id])
    /\ [][\A s \in Sessions, k \in 1..MaxRows :
             Load(s, k) => meal'[s] = saved[Offered(s, k)]]_vars

\* a session that has not searched since its login holds a loaded meal of
\* two different items, while another account's meal is in the table
C2_Witness ==
    \E s \in Sessions :
        /\ foods[s] = <<>>
        /\ Len(meal[s]) = 2
        /\ meal[s][1] # meal[s][2]
        /\ \E i \in DOMAIN meals : meals[i].user_id # user[s].id

\* C3: a session holds no composed meal while it is logged out; every meal
\* id the Load Meal selectbox offers a session belongs to the session's
\* account; and a session's composed meal changes only by that session's
\* own add, rescale, remove, clear, logout, or load of an offered meal.
C3_LoadOnlyOwnMeals ==
    /\ [](\A s \in Sessions :
             /\ ~Authenticated(s) => meal[s] = <<>>
             /\ Authenticated(s) =>
                   \A k \in DOMAIN list_meals(user[s].id) :
                       OwnerOf(Offered(s, k)) = user[s].id)
    /\ [][\A s \in Sessions :
             meal'[s] # meal[s] =>
                \/ Logout(s)
                \/ Clear(s)
                \/ \E i \in DOMAIN meal[s] : Remove(s, i)
                \/ AddToMeal(s)
                \/ \E k \in DOMAIN list_meals(user[s].id) : Load(s, k)
                \/ \E i \in DOMAIN meal[s], t \in StoreTyped : Rescale(s, i, t)]_vars

\* a session has loaded a meal of its own while the table also holds a
\* meal of another account
C3_Witness ==
    \E s \in Sessions :
        /\ Authenticated(s)
        /\ foods[s] = <<>>
        /\ meal[s] # <<>>
        /\ \E i \in DOMAIN meals : meals[i].user_id # user[s].id
        /\ \E i \in DOMAIN meals : meals[i].user_id = user[s].id

ItemCount(id) == Cardinality({j \in DOMAIN meal_items : meal_items[j].meal_id = id})

\* C4: in every committed state each meal row has as many item rows as the
\* composed meal it was saved from had items, and at least one.
C4_SaveIsAtomic ==
    \A i \in DOMAIN meals :
        /\ ItemCount(meals[i].id) = Len(saved[meals[i].id])
        /\ ItemCount(meals[i].id) > 0

\* a save has written its meal row and some but not all of its item rows,
\* while the committed table already holds a meal
C4_Witness ==
    \E s \in Sessions :
        /\ pc[s] = "saving"
        /\ Len(txn.items) >= 1
        /\ Len(txn.items) < Len(meal[s])
        /\ meals # <<>>

\* the rows of a table with the given meal id, for meal_items
ItemsOf(tbl, id) == SelectSeq(tbl, LAMBDA r : r.meal_id = id)

\* C10: no step changes or removes a committed meal row or item row; every
\* new meal row has an id no committed row has; the item rows of a
\* committed meal stay the same rows in the same order.
C10_SavedMealsAreImmutable ==
    [][/\ Len(meals') >= Len(meals)
       /\ SubSeq(meals', 1, Len(meals)) = meals
       /\ Len(meal_items') >= Len(meal_items)
       /\ SubSeq(meal_items', 1, Len(meal_items)) = meal_items
       /\ \A j \in (Len(meals) + 1)..Len(meals') :
             \A i \in DOMAIN meals : meals'[j].id # meals[i].id
       /\ \A i \in DOMAIN meals :
             ItemsOf(meal_items', meals[i].id) = ItemsOf(meal_items, meals[i].id)]_vars

\* one account has saved twice under the same name, and a session composes
\* a meal that differs from both
C10_Witness ==
    \E i, j \in DOMAIN meals :
        /\ i < j
        /\ meals[i].user_id = meals[j].user_id
        /\ meals[i].name = meals[j].name
        /\ \E s \in Sessions :
              /\ user[s].id = meals[i].user_id
              /\ meal[s] # <<>>
              /\ meal[s] # saved[meals[i].id]
              /\ meal[s] # saved[meals[j].id]

\* C6: every item of every composed meal and every item row, committed or
\* pending, has a quantity above 0; and a number of 0 or less typed into
\* the add quantity or into an item's Qty field changes neither the add
\* quantity nor the composed meal.
C6_QuantitiesStayPositive ==
    /\ [](/\ \A s \in Sessions : \A i \in DOMAIN meal[s] : meal[s][i].quantity > 0
          /\ \A j \in DOMAIN meal_items : meal_items[j].quantity > 0
          /\ \A j \in DOMAIN txn.items : txn.items[j].quantity > 0)
    /\ [][\A s \in Sessions, t \in QtyTyped :
             t <= 0 =>
                /\ TypeQty(s, t) => (add_qty'[s] = add_qty[s] /\ meal'[s] = meal[s])
                /\ \A i \in DOMAIN meal[s] : Rescale(s, i, t) => meal'[s] = meal[s]]_vars

\* a session that has not searched since its login holds a loaded item of
\* 1 g, the quantity the minus button stops at
C6_Witness ==
    \E s \in Sessions :
        /\ foods[s] = <<>>
        /\ \E i \in DOMAIN meal[s] : meal[s][i].quantity = 1
        /\ \E j \in DOMAIN meal_items : meal_items[j].quantity = 1

\* C9: a session becomes authenticated only from anonymous, by a login
\* whose username has a row whose stored hash is the hash of the password
\* given, and then as that row's account; a login with anything else leaves
\* it anonymous; an authenticated session becomes anonymous only by
\* logout; nothing of an anonymous session's meal, candidates, selection
\* or quantity changes, and no row is written while no session is
\* authenticated.
C9_SessionStateMachine ==
    [][/\ \A s \in Sessions :
            /\ (user'[s] # user[s] /\ user'[s] # NoUser) =>
                  /\ user[s] = NoUser
                  /\ \E i \in DOMAIN users, p \in Passwords :
                        /\ Login(s, users[i].username, p)
                        /\ users[i].password = hash_password(p)
                        /\ user'[s] = [id |-> users[i].id, username |-> users[i].username]
            /\ (user'[s] # user[s] /\ user'[s] = NoUser) => Logout(s)
            /\ \A u \in Usernames \cup StoreLogins, p \in Passwords :
                  (/\ Login(s, u, p)
                   /\ ~\E i \in DOMAIN users :
                          /\ users[i].username = u
                          /\ users[i].password = hash_password(p))
                  => user'[s] = NoUser
            /\ ~Authenticated(s) =>
                  /\ meal'[s] = meal[s]
                  /\ foods'[s] = foods[s]
                  /\ selected_food'[s] = selected_food[s]
                  /\ add_qty'[s] = add_qty[s]
                  /\ pc'[s] = pc[s]
       /\ <<meals, meal_items, txn>>' # <<meals, meal_items, txn>> =>
             \E s \in Sessions : Authenticated(s) /\ (txn.owner = s \/ txn'.owner = s)]_vars

\* one session is logged in as bob, and the other has just been refused
C9_Witness ==
    /\ out = "Invalid credentials"
    /\ \E s \in Sessions : user[s] = [id |-> 2, username |-> "bob"]
    /\ \E s \in Sessions : ~Authenticated(s)

\* C5: usernames are unique in the users table; no step changes an
\* existing row; a registration of a username that has a row writes no row
\* and answers that the username exists.
C5_DuplicateRegistrationRejected ==
    /\ [](\A i, j \in DOMAIN users : i # j => users[i].username # users[j].username)
    /\ [][/\ Len(users') >= Len(users)
          /\ SubSeq(users', 1, Len(users)) = users
          /\ \A s \in Sessions, u \in Usernames, p \in Passwords :
                (Register(s, u, p) /\ \E i \in DOMAIN users : users[i].username = u)
                => (users' = users /\ out' = "Username already exists")]_vars

\* a registration was refused while a session is logged in to the account
\* first registered, whose row holds the first password's hash
C5_Witness ==
    /\ out = "Username already exists"
    /\ \E s \in Sessions : Authenticated(s) /\ user[s].id = 1
    /\ Len(users) = 2

=============================================================================
